---- MODULE Spec2Model ----
(***************************************************************************)
(* arrctl: one invocation of main() (src/main.rs) against the MSRs of     *)
(* logical core 0.  A 64-bit register value is kept as four 16-bit words, *)
(* least significant first, so that every bit of the u64 is represented.  *)
(***************************************************************************)
EXTENDS Integers, Sequences, FiniteSets, TLC

VARIABLES pc, euid, cpu, args, msr, plat_info, turbo_limits,
          log, stdout, fault, result

vars == <<pc, euid, cpu, args, msr, plat_info, turbo_limits,
          log, stdout, fault, result>>

\* ------------------------------------------------------------------------
\* Register addresses (main.rs:45-49)
MSR_PLATFORM_INFO == 206
IA32_MISC_ENABLE == 416
MSR_TEMPERATURE_TARGET == 418
MSR_TURBO_LIMITS == 428
MSR_TURBO_RATIOS == 429

\* ------------------------------------------------------------------------
\* u64 arithmetic on four 16-bit words
WordBase == 2 ^ 16

U64(w3, w2, w1, w0) == <<w0, w1, w2, w3>>

Zero64 == U64(0, 0, 0, 0)

\* a natural below 2^31 as a u64
FromNat(n) == U64(0, 0, (n \div WordBase) % WordBase, n % WordBase)

None == << >>

IsSome(opt) == opt # None

\* one register access: Msr::new(which, core) followed by read() or write()
Access(op, which, core, val) == [op |-> op, which |-> which, core |-> core, val |-> val]

NoAccess == Access("none", 0, 0, None)

\* the value sits inside one 16-bit word for every field of bitfield! below
BitRange(raw, msb, lsb) ==
    (raw[(lsb \div 16) + 1] \div (2 ^ (lsb % 16))) % (2 ^ (msb - lsb + 1))

Bit(raw, b) == BitRange(raw, b, b) = 1

\* a setter that builds the word from nothing instead of merging into raw
SetBitRange_FromScratch(raw, msb, lsb, value) ==
    [Zero64 EXCEPT ![(lsb \div 16) + 1] =
        (value[1] % (2 ^ (msb - lsb + 1))) * (2 ^ (lsb % 16))]

\* bitfield's setter: self.0 &= !mask; self.0 |= (value << lsb) & mask
SetBitRange(raw, msb, lsb, value) ==
    LET i     == (lsb \div 16) + 1
        off   == 2 ^ (lsb % 16)
        width == 2 ^ (msb - lsb + 1)
        old   == (raw[i] \div off) % width
        new   == value[1] % width
    IN  [raw EXCEPT ![i] = raw[i] - old * off + new * off]

SetBit(raw, b, flag) == SetBitRange(raw, b, b, IF flag THEN FromNat(1) ELSE Zero64)

\* v * 8 in u64: the wrapped product and whether the true product overflowed
\* (the carry into word i is the top three bits of word i-1)
Mul8Word(v, i) ==
    (v[i] * 8 + (IF i = 1 THEN 0 ELSE (v[i - 1] * 8) \div WordBase)) % WordBase

\* the user's value stored without the fixed-point scale
Mul8_Unscaled(v) == v

Mul8(v) == [i \in 1..4 |-> Mul8Word(v, i)]

Mul8Overflows(v) == (v[4] * 8) \div WordBase # 0

\* x as f32 / 8.0 for a 15-bit x: exact, kept as whole part and eighths
DivBy8(x) == [whole |-> x \div 8, eighths |-> x % 8]

\* ------------------------------------------------------------------------
\* bitfield! layouts (main.rs:51-89)
\* the neighbouring capability bit, programmable_turbo_ratio
programmable_tdc_tdp_Bit28(p) == Bit(p, 28)

programmable_tdc_tdp(p) == Bit(p, 29)

tjmax_get(t) == BitRange(t, 23, 16)

tdp(t) == BitRange(t, 14, 0)
tdp_override(t) == Bit(t, 15)
tdc(t) == BitRange(t, 30, 16)
tdc_override(t) == Bit(t, 31)

set_tdp(t, v) == SetBitRange(t, 14, 0, v)
set_tdp_override(t, flag) == SetBit(t, 15, flag)
set_tdc(t, v) == SetBitRange(t, 30, 16, v)
set_tdc_override(t, flag) == SetBit(t, 31, flag)

one_core(r) == BitRange(r, 7, 0)
two_cores(r) == BitRange(r, 15, 8)
three_cores(r) == BitRange(r, 23, 16)
four_cores(r) == BitRange(r, 31, 24)

\* ------------------------------------------------------------------------
\* Inputs
Samples == 2

Take(list) == {list[i] : i \in 1..(IF Samples < Len(list) THEN Samples ELSE Len(list))}

PlatformInfoValues ==
    { U64(0, 2304, 12288, 4864),     \* bits 28 and 29 set
      U64(0, 2304, 4096, 4864) }     \* bit 28 only

TurboLimitsValues ==
    Take(<< U64(0, 0, 32768 + 280, 160),           \* tdc_override only
            U64(4660, 22136, 240, 32768 + 200),    \* tdp_override only, high bits set
            U64(1, 0, 65535, 65535),
            Zero64 >>)

TemperatureTargetValues ==
    { U64(0, 0, 105, 0), U64(0, 0, 2560 + 100, 1) }

TurboRatiosValues ==
    Take(<< U64(0, 0, 0, 7705),                    \* 0x00001E19
            U64(7, 0, 6656 + 25, 6144),            \* one_core = 0, others set
            Zero64,
            U64(0, 0, 5888 + 22, 5376 + 20) >>)

\* Option<u64> values of --set-tdp / --set-tdc
SetValues ==
    { None, FromNat(0), FromNat(100), FromNat(511), FromNat(512), FromNat(4096),
      U64(8192, 0, 0, 20) }                        \* 2^61 + 20

Cli == [get_tdp : BOOLEAN, get_tdc : BOOLEAN, get_tjmax : BOOLEAN,
        get_turbo_ratios : BOOLEAN, set_tdp : SetValues, set_tdc : SetValues]

Cpus ==
    { [vendor |-> "GenuineIntel", extended_family_id |-> 0, family_id |-> 6, model_id |-> 37],
      [vendor |-> "GenuineIntel", extended_family_id |-> 0, family_id |-> 6, model_id |-> 30],
      [vendor |-> "AuthenticAMD", extended_family_id |-> 0, family_id |-> 6, model_id |-> 37] }

Euids == {0, 1000}

Registers == {MSR_PLATFORM_INFO, IA32_MISC_ENABLE, MSR_TEMPERATURE_TARGET,
              MSR_TURBO_LIMITS, MSR_TURBO_RATIOS}

Init ==
    /\ pc = "geteuid"
    /\ euid \in Euids
    /\ cpu \in Cpus
    /\ args \in Cli
    /\ \E p \in PlatformInfoValues, l \in TurboLimitsValues,
          t \in TemperatureTargetValues, r \in TurboRatiosValues :
          msr = [a \in Registers |->
                   CASE a = MSR_PLATFORM_INFO -> p
                     [] a = MSR_TURBO_LIMITS -> l
                     [] a = MSR_TEMPERATURE_TARGET -> t
                     [] a = MSR_TURBO_RATIOS -> r
                     [] OTHER -> Zero64]
    /\ plat_info = None
    /\ turbo_limits = None
    /\ log = <<>>
    /\ stdout = <<>>
    /\ fault = NoAccess
    /\ result = "running"

\* ------------------------------------------------------------------------
\* Register I/O (main.rs:111-122); only accesses that succeeded are logged
rdmsr(which, core) == msr[which]

Logged(op, which, core, val) == Append(log, Access(op, which, core, val))

Fail(kind) ==
    /\ result' = kind
    /\ pc' = "exit"

Goto(next) ==
    /\ pc' = next
    /\ result' = result

AnySet == IsSome(args.set_tdp) \/ IsSome(args.set_tdc)

AnyGetLimit == args.get_tdp \/ args.get_tdc

\* the condition of line 141 without its last disjunct
NeedsTurboLimits_NoSetTdc == args.get_tdp \/ args.get_tdc \/ IsSome(args.set_tdp)

NeedsTurboLimits == args.get_tdp \/ args.get_tdc \/ IsSome(args.set_tdp) \/ IsSome(args.set_tdc)

Line(label, value) == [label |-> label, value |-> value]

\* ------------------------------------------------------------------------
\* main (main.rs:124-187)

\* 125-127
CheckRoot ==
    /\ pc = "geteuid"
    /\ IF euid # 0 THEN Fail("InsufficientPrivilege") ELSE Goto("ensure_cpu_good")
    /\ UNCHANGED <<euid, cpu, args, msr, plat_info, turbo_limits, log, stdout, fault>>

\* 129, 28-43
ensure_cpu_good ==
    /\ pc = "ensure_cpu_good"
    /\ IF cpu.vendor # "GenuineIntel"
          THEN Fail("UnsupportedPlatform")
          ELSE IF cpu.extended_family_id # 0 \/ cpu.family_id # 6 \/ cpu.model_id # 37
                 THEN Fail("UnsupportedPlatform")
                 ELSE Goto("plat_info")
    /\ UNCHANGED <<euid, cpu, args, msr, plat_info, turbo_limits, log, stdout, fault>>

\* 131
msr_platform_info ==
    /\ pc = "plat_info"
    /\ plat_info' = rdmsr(MSR_PLATFORM_INFO, 0)
    /\ log' = Logged("rd", MSR_PLATFORM_INFO, 0, plat_info')
    /\ Goto("exclusion")
    /\ UNCHANGED <<euid, cpu, args, msr, turbo_limits, stdout, fault>>

\* main without the test of lines 133-135
ExclusionCheck_Missing ==
    /\ pc = "exclusion"
    /\ Goto("capability")
    /\ UNCHANGED <<euid, cpu, args, msr, plat_info, turbo_limits, log, stdout, fault>>

\* 133-135
ExclusionCheck ==
    /\ pc = "exclusion"
    /\ IF (args.get_tdp \/ args.get_tdc) /\ (IsSome(args.set_tdp) \/ IsSome(args.set_tdc))
          THEN Fail("ConflictingRequest")
          ELSE Goto("capability")
    /\ UNCHANGED <<euid, cpu, args, msr, plat_info, turbo_limits, log, stdout, fault>>

\* 137-139
CapabilityCheck ==
    /\ pc = "capability"
    /\ IF (IsSome(args.set_tdp) \/ IsSome(args.set_tdc)) /\ ~programmable_tdc_tdp(plat_info)
          THEN Fail("UnsupportedOperation")
          ELSE Goto("turbo_limits")
    /\ UNCHANGED <<euid, cpu, args, msr, plat_info, turbo_limits, log, stdout, fault>>

\* 141-142
msr_turbo_limits ==
    /\ pc = "turbo_limits"
    /\ IF NeedsTurboLimits
          THEN /\ turbo_limits' = rdmsr(MSR_TURBO_LIMITS, 0)
               /\ log' = Logged("rd", MSR_TURBO_LIMITS, 0, turbo_limits')
               /\ Goto("get_tdp")
          ELSE /\ UNCHANGED <<turbo_limits, log>>
               /\ Goto("tjmax")
    /\ UNCHANGED <<euid, cpu, args, msr, plat_info, stdout, fault>>

\* 143-146
PrintTdp ==
    /\ pc = "get_tdp"
    /\ stdout' = IF args.get_tdp
                    THEN stdout \o << Line("Maximum turbo TDP", DivBy8(tdp(turbo_limits))),
                                      Line("Turbo TDP override status", tdp_override(turbo_limits)) >>
                    ELSE stdout
    /\ Goto("get_tdc")
    /\ UNCHANGED <<euid, cpu, args, msr, plat_info, turbo_limits, log, fault>>

\* 147-150
PrintTdc ==
    /\ pc = "get_tdc"
    /\ stdout' = IF args.get_tdc
                    THEN stdout \o << Line("Maximum turbo TDC", DivBy8(tdc(turbo_limits))),
                                      Line("Turbo TDP override status", tdp_override(turbo_limits)) >>
                    ELSE stdout
    /\ Goto("set_tdp")
    /\ UNCHANGED <<euid, cpu, args, msr, plat_info, turbo_limits, log, fault>>

\* set_tdp followed by a write of its own, one write per field
SetTdp_WritePerField ==
    /\ pc = "set_tdp"
    /\ turbo_limits' = IF IsSome(args.set_tdp)
                          THEN set_tdp_override(set_tdp(turbo_limits, Mul8(args.set_tdp)), TRUE)
                          ELSE turbo_limits
    /\ IF IsSome(args.set_tdp)
          THEN /\ msr' = [msr EXCEPT ![MSR_TURBO_LIMITS] = turbo_limits']
               /\ log' = Logged("wr", MSR_TURBO_LIMITS, 0, turbo_limits')
          ELSE UNCHANGED <<msr, log>>
    /\ Goto("set_tdc")
    /\ UNCHANGED <<euid, cpu, args, plat_info, stdout, fault>>

\* 151-154; tdp * 8 wraps in a build without overflow checks
SetTdp ==
    /\ pc = "set_tdp"
    /\ turbo_limits' = IF IsSome(args.set_tdp)
                          THEN set_tdp_override(set_tdp(turbo_limits, Mul8(args.set_tdp)), TRUE)
                          ELSE turbo_limits
    /\ Goto("set_tdc")
    /\ UNCHANGED <<euid, cpu, args, msr, plat_info, log, stdout, fault>>

\* 155-158
SetTdc ==
    /\ pc = "set_tdc"
    /\ turbo_limits' = IF IsSome(args.set_tdc)
                          THEN set_tdc_override(set_tdc(turbo_limits, Mul8(args.set_tdc)), TRUE)
                          ELSE turbo_limits
    /\ Goto("wrmsr")
    /\ UNCHANGED <<euid, cpu, args, msr, plat_info, log, stdout, fault>>

\* 152, 156 in a build with overflow checks: `attempt to multiply with overflow`
MulOverflowPanic ==
    /\ \/ pc = "set_tdp" /\ IsSome(args.set_tdp) /\ Mul8Overflows(args.set_tdp)
       \/ pc = "set_tdc" /\ IsSome(args.set_tdc) /\ Mul8Overflows(args.set_tdc)
    /\ Fail("ArithmeticOverflow")
    /\ UNCHANGED <<euid, cpu, args, msr, plat_info, turbo_limits, log, stdout, fault>>

\* 159-161, 118-122
wrmsr ==
    /\ pc = "wrmsr"
    /\ IF IsSome(args.set_tdp) \/ IsSome(args.set_tdc)
          THEN /\ msr' = [msr EXCEPT ![MSR_TURBO_LIMITS] = turbo_limits]
               /\ log' = Logged("wr", MSR_TURBO_LIMITS, 0, turbo_limits)
          ELSE UNCHANGED <<msr, log>>
    /\ Goto("tjmax")
    /\ UNCHANGED <<euid, cpu, args, plat_info, turbo_limits, stdout, fault>>

\* 164-167
msr_temperature_target ==
    /\ pc = "tjmax"
    /\ IF args.get_tjmax
          THEN LET tjmax == rdmsr(MSR_TEMPERATURE_TARGET, 0) IN
               /\ log' = Logged("rd", MSR_TEMPERATURE_TARGET, 0, tjmax)
               /\ stdout' = Append(stdout, Line("TJmax", tjmax_get(tjmax)))
          ELSE UNCHANGED <<log, stdout>>
    /\ Goto("turbo_ratios")
    /\ UNCHANGED <<euid, cpu, args, msr, plat_info, turbo_limits, fault>>

\* a ratio line printed whatever the value
RatioLine_Unconditional(label, value) == << Line(label, value) >>

RatioLine(label, value) == IF value # 0 THEN << Line(label, value) >> ELSE << >>

\* 169-184
msr_turbo_ratios ==
    /\ pc = "turbo_ratios"
    /\ IF args.get_turbo_ratios
          THEN LET turbo_ratios == rdmsr(MSR_TURBO_RATIOS, 0) IN
               /\ log' = Logged("rd", MSR_TURBO_RATIOS, 0, turbo_ratios)
               /\ stdout' = stdout
                     \o RatioLine("Max turbo ratio for one core", one_core(turbo_ratios))
                     \o RatioLine("Max turbo ratio for two cores", two_cores(turbo_ratios))
                     \o RatioLine("Max turbo ratio for three cores", three_cores(turbo_ratios))
                     \o RatioLine("Max turbo ratio for four cores", four_cores(turbo_ratios))
          ELSE UNCHANGED <<log, stdout>>
    /\ Goto("return")
    /\ UNCHANGED <<euid, cpu, args, msr, plat_info, turbo_limits, fault>>

\* 186
Return ==
    /\ pc = "return"
    /\ result' = "Ok"
    /\ pc' = "exit"
    /\ UNCHANGED <<euid, cpu, args, msr, plat_info, turbo_limits, log, stdout, fault>>

\* the register a pending rdmsr/wrmsr call is about to open
Pending ==
    CASE pc = "plat_info" -> Access("rd", MSR_PLATFORM_INFO, 0, None)
      [] pc = "turbo_limits" /\ NeedsTurboLimits -> Access("rd", MSR_TURBO_LIMITS, 0, None)
      [] pc = "wrmsr" /\ AnySet -> Access("wr", MSR_TURBO_LIMITS, 0, None)
      [] pc = "tjmax" /\ args.get_tjmax -> Access("rd", MSR_TEMPERATURE_TARGET, 0, None)
      [] pc = "turbo_ratios" /\ args.get_turbo_ratios -> Access("rd", MSR_TURBO_RATIOS, 0, None)
      [] OTHER -> NoAccess

\* 112-115, 119-121: Msr::new or read()/write() returns Err and unwrap() panics
MsrPanic ==
    /\ Pending # NoAccess
    /\ fault' = Pending
    /\ Fail("RegisterAccessFailure")
    /\ UNCHANGED <<euid, cpu, args, msr, plat_info, turbo_limits, log, stdout>>

Next ==
    \/ CheckRoot
    \/ ensure_cpu_good
    \/ msr_platform_info
    \/ ExclusionCheck
    \/ CapabilityCheck
    \/ msr_turbo_limits
    \/ PrintTdp
    \/ PrintTdc
    \/ SetTdp
    \/ SetTdc
    \/ MulOverflowPanic
    \/ wrmsr
    \/ msr_temperature_target
    \/ msr_turbo_ratios
    \/ Return
    \/ MsrPanic

Spec == Init /\ [][Next]_vars

TypeOK ==
    /\ pc \in {"geteuid", "ensure_cpu_good", "plat_info", "exclusion", "capability",
               "turbo_limits", "get_tdp", "get_tdc", "set_tdp", "set_tdc", "wrmsr",
               "tjmax", "turbo_ratios", "return", "exit"}
    /\ result \in {"running", "Ok", "InsufficientPrivilege", "UnsupportedPlatform",
                   "ConflictingRequest", "UnsupportedOperation", "RegisterAccessFailure",
                   "ArithmeticOverflow"}
    /\ (pc = "exit") = (result # "running")
    /\ \A a \in Registers : \A i \in 1..4 : msr[a][i] \in 0..(WordBase - 1)

\* ------------------------------------------------------------------------
\* Vocabulary of the properties
Reads(which) == {i \in DOMAIN log : log[i].op = "rd" /\ log[i].which = which}

Writes == {i \in DOMAIN log : log[i].op = "wr"}

Touched(which) == \E i \in DOMAIN log : log[i].which = which

\* the TURBO_LIMITS value this run read
Baseline == log[CHOOSE i \in Reads(MSR_TURBO_LIMITS) : TRUE].val

GetAndSet ==
    (args.get_tdp \/ args.get_tdc) /\ (args.set_tdp # None \/ args.set_tdc # None)

SetOnly ==
    ~(args.get_tdp \/ args.get_tdc) /\ (args.set_tdp # None \/ args.set_tdc # None)

InRange(v) == v # None /\ v[2] = 0 /\ v[3] = 0 /\ v[4] = 0 /\ v[1] <= 511

Above511(v) == v # None /\ ~InRange(v)

Printed(label) == {i \in DOMAIN stdout : stdout[i].label = label}

PcOrder ==
    << "geteuid", "ensure_cpu_good", "plat_info", "exclusion", "capability",
       "turbo_limits", "get_tdp", "get_tdc", "set_tdp", "set_tdc", "wrmsr",
       "tjmax", "turbo_ratios", "return" >>

PcIndex(p) == CHOOSE i \in DOMAIN PcOrder : PcOrder[i] = p

\* the run has gone past the stage without an error
Past(stage) ==
    \/ result = "Ok"
    \/ pc # "exit" /\ PcIndex(pc) > PcIndex(stage)

\* ------------------------------------------------------------------------
\* C1: a request with get_tdp or get_tdc together with set_tdp or set_tdc
\* ends in ConflictingRequest, and no register has been read or written
\* when that error is raised.
C1_ConflictBeforeAnyAccess ==
    GetAndSet =>
        /\ result = "ConflictingRequest" => log = << >>
        /\ (pc = "exit" /\ result \notin {"InsufficientPrivilege", "UnsupportedPlatform",
                                           "RegisterAccessFailure"})
             => result = "ConflictingRequest"

\* C2: with a set request and no get_tdp/get_tdc, a PLATFORM_INFO value whose
\* bit 29 is clear ends the run in UnsupportedOperation, and TURBO_LIMITS is
\* neither read nor written (nor is an access to it attempted).
C2_UnprogrammableRejected ==
    (SetOnly /\ plat_info # None /\ ~Bit(plat_info, 29)) =>
        /\ ~Touched(MSR_TURBO_LIMITS)
        /\ fault.which # MSR_TURBO_LIMITS
        /\ pc \notin {"turbo_limits", "get_tdp", "get_tdc", "set_tdp", "set_tdc", "wrmsr"}
        /\ pc = "exit" => result = "UnsupportedOperation"

C2_Witness ==
    /\ SetOnly /\ plat_info # None /\ ~Bit(plat_info, 29)
    /\ pc = "exit" /\ result = "UnsupportedOperation"

\* C3: a set_tdp or set_tdc value above 511 (capability bit set, no get) makes
\* the run fail with OutOfRange and nothing is written to TURBO_LIMITS.
C3_OutOfRangeRejected ==
    (SetOnly /\ plat_info # None /\ Bit(plat_info, 29)
       /\ (Above511(args.set_tdp) \/ Above511(args.set_tdc))) =>
        /\ Writes = {}
        /\ (pc = "exit" /\ result \notin {"RegisterAccessFailure", "ArithmeticOverflow"})
             => result = "OutOfRange"

\* C4: a run performs exactly one register write when it contains set_tdp
\* and/or set_tdc and no error is raised up to the write-back, and none
\* otherwise; a write is always to TURBO_LIMITS on core 0.
C4_SingleWrite ==
    /\ Cardinality(Writes) <= 1
    /\ \A i \in Writes : log[i].which = MSR_TURBO_LIMITS /\ log[i].core = 0
    /\ pc = "exit" =>
         LET reachedWriteBack ==
               /\ args.set_tdp # None \/ args.set_tdc # None
               /\ result \notin {"InsufficientPrivilege", "UnsupportedPlatform",
                                 "ConflictingRequest", "UnsupportedOperation",
                                 "ArithmeticOverflow"}
               /\ ~(result = "RegisterAccessFailure"
                      /\ fault.which \in {MSR_PLATFORM_INFO, MSR_TURBO_LIMITS})
         IN  Cardinality(Writes) = (IF reachedWriteBack THEN 1 ELSE 0)

C4_Witness ==
    /\ pc = "exit" /\ args.set_tdp # None /\ args.set_tdc # None
    /\ Cardinality(Writes) = 1

\* C5: for a set_tdp value v in 0..511 the value written has tdp = v*8 and
\* tdp_override set; for a set_tdc value v in 0..511 it has tdc = v*8 and
\* tdc_override set.
C5_WrittenFields ==
    \A i \in Writes :
        /\ InRange(args.set_tdp) =>
             /\ BitRange(log[i].val, 14, 0) = args.set_tdp[1] * 8
             /\ Bit(log[i].val, 15)
        /\ InRange(args.set_tdc) =>
             /\ BitRange(log[i].val, 30, 16) = args.set_tdc[1] * 8
             /\ Bit(log[i].val, 31)

C5_Witness ==
    /\ Writes # {}
    /\ args.set_tdp = FromNat(511)
    /\ args.set_tdc = FromNat(0)
    /\ Bit(Baseline, 31) = FALSE

\* C6: get_tdp reports tdp / 8 with the tdp_override bit, and get_tdc reports
\* tdc / 8 with the tdc_override bit, of the TURBO_LIMITS value read.
C6_ReportedLimits ==
    /\ \A i \in Printed("Maximum turbo TDP") :
         /\ stdout[i].value = [whole |-> BitRange(Baseline, 14, 0) \div 8,
                               eighths |-> BitRange(Baseline, 14, 0) % 8]
         /\ stdout[i + 1].value = Bit(Baseline, 15)
    /\ \A i \in Printed("Maximum turbo TDC") :
         /\ stdout[i].value = [whole |-> BitRange(Baseline, 30, 16) \div 8,
                               eighths |-> BitRange(Baseline, 30, 16) % 8]
         /\ stdout[i + 1].value = Bit(Baseline, 31)

\* C7: once TURBO_RATIOS has been read for get_turbo_ratios, each of the four
\* fields is printed, once and with its exact value, iff it is non-zero.
RatioFields ==
    << [label |-> "Max turbo ratio for one core", msb |-> 7, lsb |-> 0],
       [label |-> "Max turbo ratio for two cores", msb |-> 15, lsb |-> 8],
       [label |-> "Max turbo ratio for three cores", msb |-> 23, lsb |-> 16],
       [label |-> "Max turbo ratio for four cores", msb |-> 31, lsb |-> 24] >>

C7_RatiosReported ==
    \A k \in DOMAIN RatioFields :
        LET f == RatioFields[k] IN
        IF Reads(MSR_TURBO_RATIOS) = {}
          THEN Printed(f.label) = {}
          ELSE LET raw == log[CHOOSE i \in Reads(MSR_TURBO_RATIOS) : TRUE].val
                   v   == BitRange(raw, f.msb, f.lsb)
               IN  /\ args.get_turbo_ratios
                   /\ v = 0 => Printed(f.label) = {}
                   /\ v # 0 => /\ Cardinality(Printed(f.label)) = 1
                               /\ \A i \in Printed(f.label) : stdout[i].value = v

C7_Witness ==
    /\ Reads(MSR_TURBO_RATIOS) # {}
    /\ Printed("Max turbo ratio for one core") = {}
    /\ Printed("Max turbo ratio for two cores") # {}

\* C8: a run that ends in an error has printed nothing.
C8_NoOutputOnError ==
    (pc = "exit" /\ result # "Ok") => stdout = << >>

\* C8 as the code has it: a run that ends in a failed privilege, platform,
\* exclusion or capability check, in a failed PLATFORM_INFO or TURBO_LIMITS
\* access, or in the overflow of value * 8, has printed nothing; only a failed
\* TEMPERATURE_TARGET or TURBO_RATIOS read can follow printed lines.
C8_NoOutputOnEarlyError ==
    (/\ pc = "exit"
     /\ result # "Ok"
     /\ ~(result = "RegisterAccessFailure"
            /\ fault.which \in {MSR_TEMPERATURE_TARGET, MSR_TURBO_RATIOS}))
      => stdout = << >>

C8_Witness ==
    /\ pc = "exit"
    /\ result = "RegisterAccessFailure"
    /\ fault = Access("wr", MSR_TURBO_LIMITS, 0, None)
    /\ args.get_tjmax /\ args.get_turbo_ratios
    /\ stdout = << >>

\* C9: the value written to TURBO_LIMITS keeps bits 63..32 of the value read;
\* with set_tdp alone it keeps bits 31..16, with set_tdc alone bits 15..0.
C9_Frame ==
    \A i \in Writes :
        /\ Reads(MSR_TURBO_LIMITS) # {}
        /\ log[i].val[3] = Baseline[3]
        /\ log[i].val[4] = Baseline[4]
        /\ (args.set_tdp # None /\ args.set_tdc = None) => log[i].val[2] = Baseline[2]
        /\ (args.set_tdc # None /\ args.set_tdp = None) => log[i].val[1] = Baseline[1]

C9_Witness ==
    /\ Writes # {}
    /\ args.set_tdp = FromNat(4096) /\ args.set_tdc = None
    /\ Baseline[4] # 0 /\ Baseline[2] # 0

\* C10: the accesses happen in the order PLATFORM_INFO read, TURBO_LIMITS
\* read, TURBO_LIMITS write, TEMPERATURE_TARGET read, TURBO_RATIOS read, each
\* at most once and on core 0; a read is performed only if its stage was
\* requested, and always once the run is past a requested stage; MISC_ENABLE
\* is never accessed.
Rank(a) ==
    CASE a.which = MSR_PLATFORM_INFO /\ a.op = "rd" -> 0
      [] a.which = MSR_TURBO_LIMITS /\ a.op = "rd" -> 1
      [] a.which = MSR_TURBO_LIMITS /\ a.op = "wr" -> 2
      [] a.which = MSR_TEMPERATURE_TARGET /\ a.op = "rd" -> 3
      [] a.which = MSR_TURBO_RATIOS /\ a.op = "rd" -> 4
      [] OTHER -> 99

C10_Pipeline ==
    /\ \A i \in DOMAIN log : Rank(log[i]) # 99 /\ log[i].core = 0
    /\ \A i, j \in DOMAIN log : i < j => Rank(log[i]) < Rank(log[j])
    /\ fault.which # IA32_MISC_ENABLE /\ fault.core = 0
    /\ Reads(MSR_TURBO_LIMITS) # {} =>
         (args.get_tdp \/ args.get_tdc \/ args.set_tdp # None \/ args.set_tdc # None)
    /\ Reads(MSR_TEMPERATURE_TARGET) # {} => args.get_tjmax
    /\ Reads(MSR_TURBO_RATIOS) # {} => args.get_turbo_ratios
    /\ Past("turbo_limits") =>
         (Reads(MSR_TURBO_LIMITS) # {}) =
           (args.get_tdp \/ args.get_tdc \/ args.set_tdp # None \/ args.set_tdc # None)
    /\ Past("tjmax") => (Reads(MSR_TEMPERATURE_TARGET) # {}) = args.get_tjmax
    /\ Past("turbo_ratios") => (Reads(MSR_TURBO_RATIOS) # {}) = args.get_turbo_ratios

C10_Witness ==
    /\ result = "Ok"
    /\ Len(log) = 5
    /\ ~args.get_tdp /\ ~args.get_tdc

====
